---- MODULE Spec2Model ----
(***************************************************************************)
(* Model of the two artifacts of the repository:                           *)
(*   tutorials/R/01_EDA-with-R-and-BigQuery.ipynb  (the R notebook)        *)
(*   tutorials/tensorflow/mlflow_gcp/docker/MLproject (the job manifest)   *)
(*                                                                         *)
(* The notebook is modelled as a run of its code cells from top to bottom  *)
(* against a natality table and a fingerprint function drawn in Init.      *)
(* Character strings are sequences of one-character strings, so that the  *)
(* casts, sprintf and the template substitution are computed, not assumed. *)
(* SQL NULL is the empty sequence <<>> and a non-NULL value v is <<v>>.    *)
(***************************************************************************)
EXTENDS Integers, Sequences, FiniteSets, TLC

VARIABLES
    table,          \* publicdata.samples.natality: row id -> record
    fp,             \* FARM_FINGERPRINT on the strings the queries hash
    pc,             \* index in CellOrder of the next cell to execute
    status,         \* "running", "failed" (a cell raised an R error), "done"
    sql_query,      \* R variable sql_query: the text after LIMIT
    sample_size,    \* R variable sample_size (<<>> while unassigned)
    natality_data,  \* R data frames (<<>> while unassigned, else <<rows>>)
    df,
    train_data,
    eval_data,
    files,          \* local CSV files under data/: name -> rows
    bucket,         \* the Cloud Storage bucket: [exists, objects]
    log,            \* the external calls of this run, in order
    prev,           \* the split of the last completed earlier run
    user_params,    \* MLproject: parameters given with -P on the run
    final_params,   \* MLproject: name -> value to substitute
    idx,            \* MLproject: position in the command template
    out,            \* MLproject: the command line produced so far
    mlpc            \* MLproject: "params", "format", "done"

nbvars == <<table, fp, pc, status, sql_query, sample_size, natality_data, df,
            train_data, eval_data, files, bucket, log, prev>>
mlvars == <<user_params, final_params, idx, out, mlpc>>
vars == <<table, fp, pc, status, sql_query, sample_size, natality_data, df,
          train_data, eval_data, files, bucket, log, prev,
          user_params, final_params, idx, out, mlpc>>

(***************************************************************************)
(* Bounds                                                                  *)
(***************************************************************************)
\* rows of the natality table
NumRows == 2
\* sample_size ranges over 1..MaxSample (and the value BigSample)
MaxSample == 2
\* width in bits of the integer type standing for INT64
W == 8

MinInt == -(2 ^ (W - 1))
MaxInt == 2 ^ (W - 1) - 1

(***************************************************************************)
(* Strings                                                                 *)
(***************************************************************************)
NULL == <<>>
IsNull(x) == x = <<>>
Val(x) == x[1]

DigitChars == <<"0", "1", "2", "3", "4", "5", "6", "7", "8", "9">>

RECURSIVE Digits(_)
\* decimal digits of n >= 0
Digits(n) == IF n < 10 THEN <<DigitChars[n + 1]>>
             ELSE Digits(n \div 10) \o <<DigitChars[(n % 10) + 1]>>

DigitVal(c) == CHOOSE d \in 0..9 : DigitChars[d + 1] = c
IsDigit(c) == \E d \in 0..9 : DigitChars[d + 1] = c

RECURSIVE ParseNat(_)
ParseNat(s) == IF Len(s) = 0 THEN 0
               ELSE 10 * ParseNat(SubSeq(s, 1, Len(s) - 1)) + DigitVal(s[Len(s)])

IsNatLiteral(s) == Len(s) > 0 /\ \A i \in 1..Len(s) : IsDigit(s[i])

\* CAST(n AS STRING) for an INT64
CastIntToString(n) == IF n < 0 THEN <<"-">> \o Digits(-n) ELSE Digits(n)

\* CAST(s AS INT64) for a string holding an optionally signed decimal
CastStringToInt(s) == IF s[1] = "-" THEN -ParseNat(Tail(s)) ELSE ParseNat(s)

\* CAST(x AS STRING) for a FLOAT64 holding a whole number
CastFloatToString(x) == Digits(x) \o <<".", "0">>

(***************************************************************************)
(* R: sprintf(fmt, n) with a numeric n formats n as as.character(n) does.  *)
(***************************************************************************)
RECURSIVE StripZeros(_)
StripZeros(s) == IF Len(s) > 1 /\ s[Len(s)] = "0"
                 THEN StripZeros(SubSeq(s, 1, Len(s) - 1)) ELSE s

\* scientific notation of n >= 1, as R prints it: 1e+05, 1.2e+05
Scientific(n) ==
    LET d == Digits(n)
        sig == StripZeros(d)
        e == Digits(Len(d) - 1)
        mant == IF Len(sig) = 1 THEN sig ELSE <<sig[1], ".">> \o Tail(sig)
    IN mant \o <<"e", "+">> \o (IF Len(e) = 1 THEN <<"0">> \o e ELSE e)

\* as.character(n): the fixed notation unless the scientific one is shorter
AsCharacter(n) ==
    IF Len(Digits(n)) <= Len(Scientific(n)) THEN Digits(n) ELSE Scientific(n)

RECURSIVE SprintfFrom(_, _, _)
\* substitutes arg for the first %s of fmt; later text is copied
SprintfFrom(fmt, arg, used) ==
    IF Len(fmt) = 0 THEN <<>>
    ELSE IF ~used /\ Len(fmt) >= 2 /\ fmt[1] = "%" /\ fmt[2] = "s"
         THEN arg \o SprintfFrom(SubSeq(fmt, 3, Len(fmt)), arg, TRUE)
         ELSE <<fmt[1]>> \o SprintfFrom(Tail(fmt), arg, used)

\* sprintf(sql_query, sample_size): a format without %s comes back unchanged
sprintf(fmt, n) == SprintfFrom(fmt, AsCharacter(n), FALSE)

\* the text after LIMIT in the template of cell 1.1
SqlTemplate == <<"%", "s">>

\* a sample size whose as.character form is scientific
BigSample == 10 ^ 5
SampleSizes == (1..MaxSample) \cup {BigSample}

(***************************************************************************)
(* The natality table                                                      *)
(***************************************************************************)
Profiles == <<
    [year |-> 2001, month |-> 1, weight_pounds |-> <<12>>, is_male |-> <<TRUE>>,
     mother_age |-> <<30>>, plurality |-> <<1>>, gestation_weeks |-> <<39>>,
     cigarette_use |-> NULL, alcohol_use |-> NULL],
    [year |-> 2001, month |-> 11, weight_pounds |-> <<2>>, is_male |-> <<FALSE>>,
     mother_age |-> <<30>>, plurality |-> <<2>>, gestation_weeks |-> <<30>>,
     cigarette_use |-> <<FALSE>>, alcohol_use |-> NULL],
    [year |-> 2003, month |-> 5, weight_pounds |-> <<7>>, is_male |-> <<FALSE>>,
     mother_age |-> <<25>>, plurality |-> <<1>>, gestation_weeks |-> <<39>>,
     cigarette_use |-> <<TRUE>>, alcohol_use |-> <<FALSE>>],
    [year |-> 2002, month |-> 3, weight_pounds |-> NULL, is_male |-> <<TRUE>>,
     mother_age |-> NULL, plurality |-> <<1>>, gestation_weeks |-> NULL,
     cigarette_use |-> NULL, alcohol_use |-> NULL],
    [year |-> 2000, month |-> 7, weight_pounds |-> <<8>>, is_male |-> NULL,
     mother_age |-> <<25>>, plurality |-> <<1>>, gestation_weeks |-> <<39>>,
     cigarette_use |-> NULL, alcohol_use |-> NULL] >>

\* the tables of NumRows rows, up to the order of the rows
Tables == {t \in [1..NumRows -> 1..Len(Profiles)] :
              \A i \in 1..(NumRows - 1) : t[i] <= t[i + 1]}

Rec(i) == Profiles[table[i]]

\* x > 0 in SQL: NULL > 0 is NULL, which WHERE treats as false
Positive(x) == ~IsNull(x) /\ Val(x) > 0

\* WHERE of sql_query
SampleWhere(r) ==
    /\ r.year > 2000
    /\ Positive(r.weight_pounds)
    /\ Positive(r.mother_age)
    /\ Positive(r.plurality)
    /\ Positive(r.gestation_weeks)
    /\ r.month > 0

Filtered == {i \in DOMAIN table : SampleWhere(Rec(i))}

\* CONCAT(CAST(YEAR AS STRING), CAST(month AS STRING), CAST(weight_pounds AS STRING))
KeyString(r) == CastIntToString(r.year) \o CastIntToString(r.month)
                    \o CastFloatToString(Val(r.weight_pounds))

KeyStringsOf(t) == {KeyString(Profiles[t[i]]) :
                       i \in {j \in DOMAIN t : SampleWhere(Profiles[t[j]])}}

\* fingerprints the model draws from: the least value, a negative one, the
\* boundary residue 75 and the greatest value
HashSample == {MinInt, -76, 75, MaxInt}

\* a fingerprint salted per session: a later run hashes differently
FingerprintSalted(s) == IF IsNull(prev) THEN fp[s] ELSE -1 - fp[s]

FARM_FINGERPRINT(s) == fp[s]

\* the key taken from the fingerprint without ABS
AbsMissing(x) == x

\* ABS raises an error when the result is not representable
AbsOverflows(x) == x < 0 /\ -x > MaxInt
ABS(x) == IF x < 0 THEN -x ELSE x

\* MOD(x, y) of BigQuery: the result has the sign of x
MOD(x, y) == IF x >= 0 THEN x % y ELSE -((-x) % y)

\* CAST(ABS(FARM_FINGERPRINT(...)) AS STRING) AS key
Key(r) == CastIntToString(ABS(FARM_FINGERPRINT(KeyString(r))))
KeyError(r) == AbsOverflows(FARM_FINGERPRINT(KeyString(r)))

\* one row of the result of sql_query (id is the row's identity in the table)
Row(i) ==
    [id |-> i, weight_pounds |-> Rec(i).weight_pounds, is_male |-> Rec(i).is_male,
     mother_age |-> Rec(i).mother_age, plurality |-> Rec(i).plurality,
     gestation_weeks |-> Rec(i).gestation_weeks,
     cigarette_use |-> Rec(i).cigarette_use, alcohol_use |-> Rec(i).alcohol_use,
     key |-> Key(Rec(i))]

\* eval_query written with >= 75
EvalPredInclusive(row) == MOD(CastStringToInt(row.key), 100) >= 75

Residue(row) == MOD(CastStringToInt(row.key), 100)
\* WHERE of train_query and of eval_query
TrainPred(row) == Residue(row) <= 75
EvalPred(row) == Residue(row) > 75

Min(a, b) == IF a <= b THEN a ELSE b

\* LIMIT n without ORDER BY: any n of the filtered rows (all, if fewer)
Samples(n) == {S \in SUBSET Filtered : Cardinality(S) = Min(n, Cardinality(Filtered))}

Keep(rows, where) ==
    CASE where = "train" -> {r \in rows : TrainPred(r)}
      [] where = "eval" -> {r \in rows : EvalPred(r)}
      [] OTHER -> rows

\* bq_table_download(bq_project_query(PROJECT_ID, query)) for the sample
\* query with the given LIMIT text, wrapped or not: every result or error
\* the service can give
BqSample(limit, where) ==
    IF ~IsNatLiteral(limit)
    THEN {[ok |-> FALSE, at |-> "query", rows |-> {}]}
    ELSE {[ok |-> FALSE, at |-> "query", rows |-> {}],
          [ok |-> FALSE, at |-> "download", rows |-> {}]}
         \cup {[ok |-> TRUE, at |-> "", rows |-> Keep({Row(i) : i \in S}, where)] :
                  S \in {T \in Samples(ParseNat(limit)) :
                            \A i \in T : ~KeyError(Rec(i))}}

(***************************************************************************)
(* get_distinct_values                                                     *)
(***************************************************************************)
\* get_distinct_values filtering as sql_query does
DistinctWhereAsSample(r) == SampleWhere(r)

\* WHERE of the query of get_distinct_values
DistinctWhere(r) == r.year > 2000

RECURSIVE SumWeights(_)
SumWeights(ids) ==
    IF ids = {} THEN 0
    ELSE LET i == CHOOSE j \in ids : TRUE
         IN Val(Rec(i).weight_pounds) + SumWeights(ids \ {i})

\* AVG(weight_pounds) over a group: NULLs are skipped; the mean is kept as
\* the fraction sum / n
AVG(ids) ==
    LET nn == {i \in ids : ~IsNull(Rec(i).weight_pounds)}
    IN IF nn = {} THEN NULL
       ELSE <<[sum |-> SumWeights(nn), n |-> Cardinality(nn)]>>

\* SELECT col, COUNT(1) AS num_babies, AVG(weight_pounds) AS avg_wt
\* FROM natality WHERE year > 2000 GROUP BY col
GroupBy(col) ==
    LET base == {i \in DOMAIN table : DistinctWhere(Rec(i))}
        group(v) == {i \in base : Rec(i)[col] = v}
    IN {[value |-> v, num_babies |-> Cardinality(group(v)), avg_wt |-> AVG(group(v))] :
           v \in {Rec(i)[col] : i \in base}}

\* get_distinct_values(column_name): every result or error
get_distinct_values(col) ==
    {[ok |-> FALSE, at |-> "query", rows |-> {}],
     [ok |-> FALSE, at |-> "download", rows |-> {}],
     [ok |-> TRUE, at |-> "", rows |-> GroupBy(col)]}

(***************************************************************************)
(* The cells of the notebook                                               *)
(***************************************************************************)
\* the upload cell placed before the cell that writes the CSV files
CellOrderUploadFirst ==
    <<"version", "library", "bq_auth", "config", "cell_1_1", "cell_1_2",
      "head", "str", "summary", "plot_hist", "plot_scatter",
      "def_get_distinct_values", "distinct_is_male", "distinct_mother_age",
      "distinct_plurality", "distinct_gestation_weeks", "cell_3",
      "print_counts", "upload", "write_csv">>

CellOrder == <<"version", "library", "bq_auth", "config", "cell_1_1", "cell_1_2",
               "head", "str", "summary", "plot_hist", "plot_scatter",
               "def_get_distinct_values", "distinct_is_male", "distinct_mother_age",
               "distinct_plurality", "distinct_gestation_weeks", "cell_3",
               "print_counts", "write_csv", "upload">>

Cell == CellOrder[pc]
At(c) == status = "running" /\ Cell = c

Entry(step, name, ok, limit, size) ==
    [step |-> step, name |-> name, ok |-> ok, limit |-> limit, size |-> size]

\* the calls of bq_table_download(bq_project_query(..)) with outcome o
BqCalls(name, o, limit, size) ==
    IF o.ok THEN <<Entry("query", name, TRUE, limit, size),
                   Entry("download", name, TRUE, limit, size)>>
    ELSE IF o.at = "query" THEN <<Entry("query", name, FALSE, limit, size)>>
    ELSE <<Entry("query", name, TRUE, limit, size),
           Entry("download", name, FALSE, limit, size)>>

\* every call wrapped in try(): no failure stops the cell
RaisesNothing(e) == FALSE

\* a failed call of bigrquery raises an R error; system() only returns the
\* exit status of the command, which the notebook discards
Raises(e) == ~e.ok /\ e.step \in {"auth", "query", "download", "object"}

AnyRaises(calls) == \E i \in DOMAIN calls : Raises(calls[i])

\* the calls a cell gets to make: those up to the first one that raises
Executed(calls) ==
    IF AnyRaises(calls)
    THEN SubSeq(calls, 1, CHOOSE i \in DOMAIN calls :
                              /\ Raises(calls[i])
                              /\ \A j \in 1..(i - 1) : ~Raises(calls[j]))
    ELSE calls

\* the end of a cell that made the given calls: an R error stops the run
Finish(calls) ==
    /\ log' = log \o Executed(calls)
    /\ IF AnyRaises(calls)
       THEN pc' = pc /\ status' = "failed"
       ELSE /\ pc' = IF pc < Len(CellOrder) THEN pc + 1 ELSE pc
            /\ status' = IF pc < Len(CellOrder) THEN "running" ELSE "done"

\* an R error "object not found" for a variable the cell reads
Lookup(name, value) ==
    IF IsNull(value) THEN <<Entry("object", name, FALSE, <<>>, <<>>)>> ELSE <<>>

\* cells that call no external service and assign nothing modelled
LocalCell ==
    /\ status = "running"
    /\ Cell \in {"version", "library", "config", "head", "str", "summary", "plot_hist",
                 "plot_scatter", "def_get_distinct_values", "print_counts"}
    /\ Finish(CASE Cell \in {"head", "str", "summary", "plot_hist", "plot_scatter"}
                     -> Lookup("natality_data", natality_data)
                [] Cell = "print_counts"
                     -> Lookup("train_data", train_data) \o Lookup("eval_data", eval_data)
                [] OTHER -> <<>>)
    /\ UNCHANGED <<table, fp, sql_query, sample_size, natality_data, df, train_data,
                   eval_data, files, bucket, prev>>
    /\ UNCHANGED mlvars

\* bq_auth(use_oob = TRUE)
Auth ==
    /\ At("bq_auth")
    /\ \E ok \in BOOLEAN : Finish(<<Entry("auth", "bq_auth", ok, <<>>, <<>>)>>)
    /\ UNCHANGED <<table, fp, sql_query, sample_size, natality_data, df, train_data,
                   eval_data, files, bucket, prev>>
    /\ UNCHANGED mlvars

\* cell 1.1: sql_query <- "... LIMIT %s"
Cell11 ==
    /\ At("cell_1_1")
    /\ sql_query' = SqlTemplate
    /\ Finish(<<>>)
    /\ UNCHANGED <<table, fp, sample_size, natality_data, df, train_data, eval_data,
                   files, bucket, prev>>
    /\ UNCHANGED mlvars

\* cell 1.2: sample_size <- n; sql_query <- sprintf(sql_query, sample_size);
\* natality_data <- bq_table_download(bq_project_query(PROJECT_ID, sql_query))
Cell12 ==
    /\ At("cell_1_2")
    /\ \E n \in SampleSizes :
         LET q == sprintf(sql_query, n)
         IN /\ sample_size' = <<n>>
            /\ sql_query' = q
            /\ \E o \in BqSample(q, "none") :
                 /\ natality_data' = IF o.ok THEN <<o.rows>> ELSE natality_data
                 /\ Finish(BqCalls("sample", o, q, <<n>>))
    /\ UNCHANGED <<table, fp, df, train_data, eval_data, files, bucket, prev>>
    /\ UNCHANGED mlvars

DistinctColumn(c) ==
    CASE c = "distinct_is_male" -> "is_male"
      [] c = "distinct_mother_age" -> "mother_age"
      [] c = "distinct_plurality" -> "plurality"
      [] c = "distinct_gestation_weeks" -> "gestation_weeks"

\* df <- get_distinct_values(column); ggplot(data = df, ...)
Distinct ==
    /\ status = "running"
    /\ Cell \in {"distinct_is_male", "distinct_mother_age", "distinct_plurality",
                 "distinct_gestation_weeks"}
    /\ \E o \in get_distinct_values(DistinctColumn(Cell)) :
         /\ df' = IF o.ok THEN <<[column |-> DistinctColumn(Cell), rows |-> o.rows]>> ELSE df
         /\ Finish(BqCalls(DistinctColumn(Cell), o, <<>>, <<>>))
    /\ UNCHANGED <<table, fp, sql_query, sample_size, natality_data, train_data,
                   eval_data, files, bucket, prev>>
    /\ UNCHANGED mlvars

\* cell 3: sample_size <- n; sql_query <- sprintf(sql_query, sample_size);
\* train_query and eval_query wrap sql_query; each is run and downloaded
Cell3 ==
    /\ At("cell_3")
    /\ \E n \in SampleSizes :
         LET q == sprintf(sql_query, n)
         IN /\ sample_size' = <<n>>
            /\ sql_query' = q
            /\ \E o1 \in BqSample(q, "train"), o2 \in BqSample(q, "eval") :
                 LET c1 == BqCalls("train", o1, q, <<n>>)
                     c2 == BqCalls("eval", o2, q, <<n>>)
                 IN /\ train_data' = IF o1.ok THEN <<o1.rows>> ELSE train_data
                    /\ eval_data' = IF ~AnyRaises(c1) /\ o2.ok
                                    THEN <<o2.rows>> ELSE eval_data
                    /\ Finish(c1 \o c2)
    /\ UNCHANGED <<table, fp, natality_data, df, files, bucket, prev>>
    /\ UNCHANGED mlvars

\* dir.create('data'); write.table(train_data, ...); write.table(eval_data, ...)
WriteCsv ==
    /\ At("write_csv")
    /\ LET c1 == Lookup("train_data", train_data)
           c2 == Lookup("eval_data", eval_data)
           w1 == <<Entry("write", "train_data.csv", TRUE, <<>>, <<>>)>>
           w2 == <<Entry("write", "eval_data.csv", TRUE, <<>>, <<>>)>>
       IN /\ files' = [train |-> IF AnyRaises(c1) THEN files.train ELSE train_data,
                       eval |-> IF AnyRaises(c1 \o c2) THEN files.eval ELSE eval_data]
          /\ Finish(c1 \o w1 \o c2 \o w2)
    /\ UNCHANGED <<table, fp, sql_query, sample_size, natality_data, df, train_data,
                   eval_data, bucket, prev>>
    /\ UNCHANGED mlvars

\* the objects gsutil cp data/*_data.csv gs://BUCKET_NAME/data creates
Matching == {n \in {"train", "eval"} : ~IsNull(files[n])}

\* system("gsutil mb ..."); system("gsutil cp ..."); system("gsutil ls -l ...")
Upload ==
    /\ At("upload")
    /\ \E mb \in BOOLEAN, cp \in BOOLEAN, ls \in BOOLEAN :
         LET exists == bucket.exists \/ mb
             objects == IF cp THEN bucket.objects \cup Matching ELSE bucket.objects
         IN /\ mb => ~bucket.exists
            /\ cp => exists /\ Matching # {}
            /\ ls => exists /\ objects # {}
            /\ bucket' = [exists |-> exists, objects |-> objects]
            /\ Finish(<<Entry("gsutil", "mb", mb, <<>>, <<>>),
                        Entry("gsutil", "cp", cp, <<>>, <<>>),
                        Entry("gsutil", "ls", ls, <<>>, <<>>)>>)
    /\ UNCHANGED <<table, fp, sql_query, sample_size, natality_data, df, train_data,
                   eval_data, files, prev>>
    /\ UNCHANGED mlvars

SplitDone == ~IsNull(train_data) /\ ~IsNull(eval_data)

\* the kernel is restarted and the notebook is run again: the R session is
\* fresh, the local files and the bucket are as the last run left them.
\* prev remembers the split of the run that ended, for comparison.
Restart ==
    /\ status \in {"failed", "done"}
    /\ pc' = 1
    /\ status' = "running"
    /\ sql_query' = <<>>
    /\ sample_size' = <<>>
    /\ natality_data' = <<>>
    /\ df' = <<>>
    /\ train_data' = <<>>
    /\ eval_data' = <<>>
    /\ log' = <<>>
    /\ prev' = IF SplitDone
               THEN <<[train |-> Val(train_data), eval |-> Val(eval_data),
                       limit |-> sql_query]>>
               ELSE prev
    /\ UNCHANGED <<table, fp, files, bucket>>
    /\ UNCHANGED mlvars

MLIdle ==
    /\ user_params = {}
    /\ final_params = <<>>
    /\ idx = 0
    /\ out = <<>>
    /\ mlpc = "idle"

Init ==
    /\ table \in Tables
    /\ fp \in [KeyStringsOf(table) -> HashSample]
    /\ pc = 1
    /\ status = "running"
    /\ sql_query = <<>>
    /\ sample_size = <<>>
    /\ natality_data = <<>>
    /\ df = <<>>
    /\ train_data = <<>>
    /\ eval_data = <<>>
    /\ files = [train |-> <<>>, eval |-> <<>>]
    /\ bucket \in {[exists |-> e, objects |-> {}] : e \in BOOLEAN}
    /\ log = <<>>
    /\ prev = <<>>
    /\ MLIdle

Next ==
    \/ LocalCell
    \/ Auth
    \/ Cell11
    \/ Cell12
    \/ Distinct
    \/ Cell3
    \/ WriteCsv
    \/ Upload

\* one run of the notebook
Spec == Init /\ [][Next]_vars

NextRerun ==
    \/ Next
    \/ Restart

\* runs of the notebook one after the other, each in a fresh kernel
SpecRerun == Init /\ [][NextRerun]_vars

(***************************************************************************)
(* The MLproject manifest.  A name is the sequence of its words and        *)
(* separators (job_dir is <<"job", "_", "dir">>); a value is the sequence  *)
(* of its parts, the empty string being <<>>.                              *)
(***************************************************************************)
Parameters == <<
    [name |-> <<"job", "_", "dir">>, type |-> "string", default |-> <<"/tmp/">>],
    [name |-> <<"num", "_", "epochs">>, type |-> "int", default |-> Digits(10)],
    [name |-> <<"train", "_", "steps">>, type |-> "int", default |-> Digits(1000)],
    [name |-> <<"eval", "_", "steps">>, type |-> "int", default |-> Digits(1)],
    [name |-> <<"batch", "_", "size">>, type |-> "int", default |-> Digits(64)],
    [name |-> <<"train", "_", "files">>, type |-> "string",
     default |-> <<"gs", "://", "cloud-samples-data/ml-engine/census/data/adult.data.csv">>],
    [name |-> <<"eval", "_", "files">>, type |-> "string",
     default |-> <<"gs", "://", "cloud-samples-data/ml-engine/census/data/adult.test.csv">>],
    [name |-> <<"mlflow", "_", "tracking", "_", "uri">>, type |-> "uri", default |-> <<>>] >>

Word(t) == [kind |-> "word", text |-> t]
Placeholder(n) == [kind |-> "placeholder", text |-> n]

\* the placeholders of --train-files and --eval-files exchanged
CommandSwapped == <<
    Word(<<"python">>), Word(<<"-m">>), Word(<<"trainer.task">>),
    Word(<<"--", "job", "-", "dir">>), Placeholder(<<"job", "_", "dir">>),
    Word(<<"--", "num", "-", "epochs">>), Placeholder(<<"num", "_", "epochs">>),
    Word(<<"--", "train", "-", "steps">>), Placeholder(<<"train", "_", "steps">>),
    Word(<<"--", "eval", "-", "steps">>), Placeholder(<<"eval", "_", "steps">>),
    Word(<<"--", "train", "-", "files">>), Placeholder(<<"eval", "_", "files">>),
    Word(<<"--", "eval", "-", "files">>), Placeholder(<<"train", "_", "files">>),
    Word(<<"--", "batch", "-", "size">>), Placeholder(<<"batch", "_", "size">>),
    Word(<<"--", "mlflow", "-", "tracking", "-", "uri">>),
    Placeholder(<<"mlflow", "_", "tracking", "_", "uri">>) >>

\* the command template: words as written, {name} as a placeholder
Command == <<
    Word(<<"python">>), Word(<<"-m">>), Word(<<"trainer.task">>),
    Word(<<"--", "job", "-", "dir">>), Placeholder(<<"job", "_", "dir">>),
    Word(<<"--", "num", "-", "epochs">>), Placeholder(<<"num", "_", "epochs">>),
    Word(<<"--", "train", "-", "steps">>), Placeholder(<<"train", "_", "steps">>),
    Word(<<"--", "eval", "-", "steps">>), Placeholder(<<"eval", "_", "steps">>),
    Word(<<"--", "train", "-", "files">>), Placeholder(<<"train", "_", "files">>),
    Word(<<"--", "eval", "-", "files">>), Placeholder(<<"eval", "_", "files">>),
    Word(<<"--", "batch", "-", "size">>), Placeholder(<<"batch", "_", "size">>),
    Word(<<"--", "mlflow", "-", "tracking", "-", "uri">>),
    Placeholder(<<"mlflow", "_", "tracking", "_", "uri">>) >>

ParamNames == {Parameters[i].name : i \in DOMAIN Parameters}
ParamOf(n) == Parameters[CHOOSE i \in DOMAIN Parameters : Parameters[i].name = n]

\* a value of the parameter's declared type that a user passes with -P;
\* the values of different parameters differ
UserValue(n) ==
    LET i == CHOOSE j \in DOMAIN Parameters : Parameters[j].name = n
    IN CASE Parameters[i].type = "int" -> Digits(100 + i)
         [] Parameters[i].type = "uri" -> <<"http", "://">> \o n
         [] OTHER -> <<"user">> \o n

\* the value substituted for each declared parameter: the user's, else the default
ComputeParameters(given) ==
    [n \in ParamNames |-> IF n \in given THEN UserValue(n) ELSE ParamOf(n).default]

\* the text a token of the command becomes
Substitute(tok, params) ==
    IF tok.kind = "placeholder" THEN params[tok.text] ELSE tok.text

MLParams ==
    /\ mlpc = "params"
    /\ final_params' = ComputeParameters(user_params)
    /\ idx' = 1
    /\ mlpc' = "format"
    /\ UNCHANGED <<user_params, out>>
    /\ UNCHANGED nbvars

MLFormat ==
    /\ mlpc = "format"
    /\ idx <= Len(Command)
    /\ out' = Append(out, Substitute(Command[idx], final_params))
    /\ idx' = idx + 1
    /\ UNCHANGED <<user_params, final_params, mlpc>>
    /\ UNCHANGED nbvars

MLDone ==
    /\ mlpc = "format"
    /\ idx > Len(Command)
    /\ mlpc' = "done"
    /\ UNCHANGED <<user_params, final_params, idx, out>>
    /\ UNCHANGED nbvars

NotebookIdle ==
    /\ table = <<>>
    /\ fp = <<>>
    /\ pc = 1
    /\ status = "idle"
    /\ sql_query = <<>>
    /\ sample_size = <<>>
    /\ natality_data = <<>>
    /\ df = <<>>
    /\ train_data = <<>>
    /\ eval_data = <<>>
    /\ files = [train |-> <<>>, eval |-> <<>>]
    /\ bucket = [exists |-> FALSE, objects |-> {}]
    /\ log = <<>>
    /\ prev = <<>>

InitML ==
    /\ NotebookIdle
    /\ user_params \in SUBSET ParamNames
    /\ final_params = <<>>
    /\ idx = 0
    /\ out = <<>>
    /\ mlpc = "params"

NextML ==
    \/ MLParams
    \/ MLFormat
    \/ MLDone

SpecML == InitML /\ [][NextML]_vars

(***************************************************************************)
(* Properties                                                              *)
(***************************************************************************)
Ids(rows) == {r.id : r \in rows}
Assigned(x) == IF IsNull(x) THEN {} ELSE Val(x)
SameRecord(i, j) ==
    /\ Rec(i).year = Rec(j).year
    /\ Rec(i).month = Rec(j).month
    /\ Rec(i).weight_pounds = Rec(j).weight_pounds

\* C1: the split is disjoint. Every row of train_data has MOD(key, 100) <= 75,
\* every row of eval_data has MOD(key, 100) > 75, and no record of the table,
\* and no key, is in both train_data and eval_data, whatever rows the two
\* separately executed queries sampled.
C1_SplitDisjoint ==
    /\ \A r \in Assigned(train_data) : MOD(CastStringToInt(r.key), 100) <= 75
    /\ \A r \in Assigned(eval_data) : MOD(CastStringToInt(r.key), 100) > 75
    /\ Ids(Assigned(train_data)) \cap Ids(Assigned(eval_data)) = {}
    /\ {r.key : r \in Assigned(train_data)} \cap {r.key : r \in Assigned(eval_data)} = {}

\* both sides of the split are non-empty although each query had LIMIT 1:
\* the two queries sampled different rows
C1_Witness ==
    /\ SplitDone
    /\ Val(train_data) # {}
    /\ Val(eval_data) # {}
    /\ sql_query = <<"1">>

\* the columns of a row, without its identity in the table
Columns(r) == [r EXCEPT !.id = 0]
\* a data frame as its rows with their multiplicities
Frame(rows) == [c \in {Columns(r) : r \in rows} |->
                   Cardinality({r \in rows : Columns(r) = c})]

\* C2 as stated: two runs over the same table, sending the same LIMIT,
\* produce the same train_data and the same eval_data.
C2_SameDataInTwoRuns ==
    (~IsNull(prev) /\ SplitDone /\ Val(prev).limit = sql_query)
        => /\ Frame(Val(train_data)) = Frame(Val(prev).train)
           /\ Frame(Val(eval_data)) = Frame(Val(prev).eval)

\* C2 amended: in any two runs over the same table a record with the same
\* (year, month, weight_pounds) gets the same key and, when both runs return
\* it, is on the same side of the split.
C2_SameKeySameSide ==
    ~IsNull(prev) =>
        \A r \in Val(prev).train \cup Val(prev).eval :
            \A s \in Assigned(natality_data) \cup Assigned(train_data) \cup Assigned(eval_data) :
                SameRecord(r.id, s.id) =>
                    /\ r.key = s.key
                    /\ s \in Assigned(train_data) => r \in Val(prev).train
                    /\ s \in Assigned(eval_data) => r \in Val(prev).eval

\* a second run returned a record of the first run on the same side, and yet
\* its split differs from the first run's
C2_Witness ==
    /\ ~IsNull(prev)
    /\ SplitDone
    /\ Val(prev).limit = sql_query
    /\ Ids(Val(prev).train) \cap Ids(Val(train_data)) # {}
    /\ Frame(Val(prev).eval) # Frame(Val(eval_data))
    /\ Val(eval_data) # {}

Hyphenate(n) == <<"--">> \o [i \in DOMAIN n |-> IF n[i] = "_" THEN "-" ELSE n[i]]
Expected(n) == IF n \in user_params THEN UserValue(n) ELSE ParamOf(n).default
PlaceholderAt(n) == {i \in DOMAIN Command :
                        Command[i].kind = "placeholder" /\ Command[i].text = n}

\* C3: the command template substitutes exactly the declared parameters: the
\* placeholders of the command are the declared parameters, each occurring
\* once, and in the command produced the option flag named after a parameter
\* (underscores as hyphens) occurs once and is followed by that parameter's
\* value.
C3_CommandSubstitutesDeclared ==
    mlpc = "done" =>
        /\ {Command[i].text : i \in {j \in DOMAIN Command : Command[j].kind = "placeholder"}}
               = ParamNames
        /\ Cardinality(ParamNames) = 8
        /\ \A n \in ParamNames :
              /\ Cardinality(PlaceholderAt(n)) = 1
              /\ Cardinality({j \in DOMAIN out : out[j] = Hyphenate(n)}) = 1
              /\ \A j \in DOMAIN out :
                    out[j] = Hyphenate(n) => j < Len(out) /\ out[j + 1] = Expected(n)

\* a command produced with some parameters given by the user and some defaulted
C3_Witness ==
    /\ mlpc = "done"
    /\ <<"train", "_", "files">> \in user_params
    /\ <<"eval", "_", "files">> \notin user_params
    /\ Len(out) = Len(Command)

SampleQuery(e) == e.step = "query" /\ e.name \in {"sample", "train", "eval"}

\* C4 as stated: the LIMIT of every query built from sql_query is the
\* sample_size assigned in the cell that sends it, as sprintf writes it.
C4_LimitIsSampleSize ==
    \A i \in DOMAIN log :
        SampleQuery(log[i]) => log[i].limit = AsCharacter(Val(log[i].size))

Before(i, step, name) ==
    \E j \in 1..(i - 1) : log[j].step = step /\ log[j].name = name /\ log[j].ok

Rank(e) ==
    CASE e.step = "auth" -> 1
      [] e.step \in {"query", "download"} /\ e.name = "sample" -> 2
      [] e.step \in {"query", "download"} /\ e.name \in {"train", "eval"} -> 4
      [] e.step \in {"query", "download"} -> 3
      [] e.step = "write" -> 5
      [] e.step = "gsutil" -> 6
      [] OTHER -> 0

\* C5: a run makes its external calls one after the other in the order
\* authenticate, query and download, the aggregate queries of the plots,
\* split, write, upload, each call once: no query is issued before bq_auth
\* succeeded, the CSV files are written only after train_data and eval_data
\* were both downloaded, and gsutil cp is issued only after both CSV files
\* were written.
C5_StepsInOrder ==
    /\ \A i \in 1..(Len(log) - 1) : Rank(log[i]) <= Rank(log[i + 1])
    /\ Cardinality({<<log[i].step, log[i].name>> : i \in DOMAIN log}) = Len(log)
    /\ \A i \in DOMAIN log :
          /\ Rank(log[i]) > 0
          /\ log[i].step \in {"query", "download"} => Before(i, "auth", "bq_auth")
          /\ log[i].step = "write" =>
                Before(i, "download", "train") /\ Before(i, "download", "eval")
          /\ (log[i].step = "gsutil" /\ log[i].name = "cp") =>
                Before(i, "write", "train_data.csv") /\ Before(i, "write", "eval_data.csv")

\* a complete run whose copy succeeded
C5_Witness ==
    /\ status = "done"
    /\ \E i \in DOMAIN log : log[i].step = "gsutil" /\ log[i].name = "cp" /\ log[i].ok

C7_SplitPartitionsOneSample ==
    (SplitDone /\ IsNatLiteral(sql_query) /\ ParseNat(sql_query) = Val(sample_size)) =>
        /\ Cardinality(Val(train_data)) + Cardinality(Val(eval_data)) <= Val(sample_size)
        /\ Ids(Val(train_data)) \cup Ids(Val(eval_data)) \in Samples(Val(sample_size))

\* the residues of the keys 0..99 that each predicate of the split accepts
TrainResidues == {m \in 0..99 : TrainPred([key |-> CastIntToString(m)])}
EvalResidues == {m \in 0..99 : EvalPred([key |-> CastIntToString(m)])}

Downloaded == Assigned(natality_data) \cup Assigned(train_data) \cup Assigned(eval_data)

\* C8: the key of every downloaded record is the absolute value of the
\* record's fingerprint: a non-negative integer of the integer type that
\* converts from STRING to INT64 and back without loss; MOD(key, 100) is in
\* 0..99; the record satisfies the train predicate exactly when the residue
\* is in 0..75 and the eval predicate exactly when it is in 76..99, hence
\* exactly one of the two; 76 residues go to train and 24 to eval.
C8_KeyAndResidue ==
    /\ \A r \in Downloaded :
          LET k == CastStringToInt(r.key)
              f == fp[KeyString(Rec(r.id))]
          IN /\ k >= 0 /\ k <= MaxInt
             /\ k * k = f * f
             /\ CastIntToString(k) = r.key
             /\ MOD(k, 100) \in 0..99
             /\ TrainPred(r) <=> MOD(k, 100) \in 0..75
             /\ EvalPred(r) <=> MOD(k, 100) \in 76..99
             /\ TrainPred(r) <=> ~EvalPred(r)
    /\ TrainResidues = 0..75
    /\ EvalResidues = 76..99
    /\ Cardinality(TrainResidues) = 76
    /\ Cardinality(EvalResidues) = 24

\* a record with a negative fingerprint was downloaded on the eval side and
\* one with the boundary residue 75 on the train side
C8_Witness ==
    /\ \E r \in Assigned(eval_data) : fp[KeyString(Rec(r.id))] < 0
    /\ \E r \in Assigned(train_data) : MOD(CastStringToInt(r.key), 100) = 75

IsUri(v) == Len(v) >= 3 /\ v[2] = "://"
HasType(v, type) ==
    CASE type = "int" -> IsNatLiteral(v)
      [] type = "uri" -> IsUri(v)
      [] OTHER -> TRUE

\* C9 as stated: with no user-supplied values every option flag of the
\* command produced is followed by a non-empty value of the declared type.
C9_DefaultsNonEmpty ==
    (mlpc = "done" /\ user_params = {}) =>
        \A n \in ParamNames : \A j \in DOMAIN out :
            out[j] = Hyphenate(n) =>
                /\ j < Len(out)
                /\ out[j + 1] = ParamOf(n).default
                /\ out[j + 1] # <<>>
                /\ HasType(out[j + 1], ParamOf(n).type)

RECURSIVE SumBabies(_)
SumBabies(rows) ==
    IF rows = {} THEN 0
    ELSE LET r == CHOOSE x \in rows : TRUE
         IN r.num_babies + SumBabies(rows \ {r})

\* C10: get_distinct_values(column) returns one row per distinct value of the
\* column among the records with year > 2000 and no other filter, num_babies
\* being the number of those records with that value and avg_wt the mean of
\* their weight_pounds; the num_babies of the rows add up to the number of
\* records with year > 2000, whatever the column.
C10_DistinctValues ==
    ~IsNull(df) =>
        LET col == Val(df).column
            rows == Val(df).rows
            base == {i \in DOMAIN table : Rec(i).year > 2000}
            with(v) == {i \in base : Rec(i)[col] = v}
            weighed(v) == {i \in with(v) : Rec(i).weight_pounds # NULL}
        IN /\ {r.value : r \in rows} = {Rec(i)[col] : i \in base}
           /\ \A r \in rows : \A q \in rows : r.value = q.value => r = q
           /\ \A r \in rows :
                 /\ r.num_babies = Cardinality(with(r.value))
                 /\ IF weighed(r.value) = {} THEN r.avg_wt = NULL
                    ELSE /\ Val(r.avg_wt).n = Cardinality(weighed(r.value))
                         /\ Val(r.avg_wt).sum = SumWeights(weighed(r.value))
           /\ SumBabies(rows) = Cardinality(base)

\* the column has a NULL group, and a record counted fails the other
\* conditions of the sample query
C10_Witness ==
    /\ ~IsNull(df)
    /\ Val(df).column = "mother_age"
    /\ \E r \in Val(df).rows : r.value = NULL
    /\ \E r \in Val(df).rows : r.value # NULL
    /\ \E i \in DOMAIN table : Rec(i).year > 2000 /\ ~SampleWhere(Rec(i))
====
